---- MODULE Spec2Model ----
(***************************************************************************)
(* SentencePlugin of the Lexical playground: the selection codec           *)
(* ($pointToPath / $setPointFromPointPath), its two text-offset policies   *)
(* and the sentence matcher (findFirstSentenceMatch).                      *)
(*                                                                         *)
(* A document is a nested record; a node is addressed by its key, the      *)
(* sequence of 1-based child positions leading to it from the root.        *)
(***************************************************************************)
EXTENDS Integers, Sequences, FiniteSets, TLC

VARIABLES
    root,           \* the document tree ($getRoot())
    point,          \* the Point handed to $pointToPath
    pointTree,      \* the tree that holds the Point's node: root, or a detached subtree
    threw,          \* whether the last call of the codec threw
    selection,      \* the live selection ($getSelection())
    store,          \* localStorage: the records under 'anchor' and 'focus'
    handler,        \* the click handler that is running, "none" between clicks
    pc,             \* where it is: "idle", "callback" (editor.update is about to run it), "return"
    inUpdate,       \* an editor.update transaction is open
    storeLog,       \* the localStorage calls of the running handler, each with inUpdate as it was
    decoded,        \* the PointPaths the running handler handed to $setPointFromPointPath
    selectionSet,   \* the running handler called $setSelection
    lastSaved,      \* the paths of the latest saveSelection call of this run of the plugin
    path,           \* the PointPath {rootIndex, textOffset}
    pathFrom,       \* "none" | "encode" ($pointToPath made it) | "input" | "match"
    policy,         \* "none" | "exact" | "rendered": the adjust functions in use
    result,         \* the Point written by $setPointFromPointPath
    rootTexts,      \* findFirstSentenceMatch: the block strings
    sentence,       \* findFirstSentenceMatch: the target string
    sentenceMatch   \* findFirstSentenceMatch: what it returned

matchVars == <<rootTexts, sentence, sentenceMatch>>

codecVars == <<point, pointTree, path, pathFrom, policy, result>>

pluginVars == <<selection, store, handler, pc, inUpdate, storeLog, decoded, selectionSet, lastSaved>>

vars == <<root, threw, codecVars, matchVars, pluginVars>>

(***************************************************************************)
(* Bounds of the model.                                                    *)
(***************************************************************************)
MaxNodes == 4      \* nodes of a generated document, the root not counted
MaxText == 2       \* characters of a generated TextNode (at least 1)
MaxOverrun == 2    \* how far a decoded textOffset may exceed the block's text

(***************************************************************************)
(* Nodes.                                                                  *)
(***************************************************************************)
Alphabet == <<"a", "b", "c", "d", "e", "f">>

TextNode(t) == [type |-> "text", text |-> t, inline |-> TRUE, children |-> <<>>]

LineBreakNode == [type |-> "linebreak", text |-> <<>>, inline |-> TRUE, children |-> <<>>]

DecoratorNode == [type |-> "decorator", text |-> <<>>, inline |-> FALSE, children |-> <<>>]

ElementNode(inl, ch) == [type |-> "element", text |-> <<>>, inline |-> inl, children |-> ch]

RootNode(ch) == [type |-> "root", text |-> <<>>, inline |-> FALSE, children |-> ch]

isTextNode(node) == node.type = "text"

\* $isElementNode is true of the RootNode too: RootNode extends ElementNode
isElementNode(node) == node.type \in {"element", "root"}

isLineBreakNode(node) == node.type = "linebreak"

isRootNode(node) == node.type = "root"

getTextContentSize(node) == Len(node.text)

RECURSIVE NodeAt(_, _)
NodeAt(node, key) ==
    IF key = <<>> THEN node ELSE NodeAt(node.children[Head(key)], Tail(key))

Front(s) == SubSeq(s, 1, Len(s) - 1)

Last(s) == s[Len(s)]

RECURSIVE SumSeq(_)
SumSeq(s) == IF s = <<>> THEN 0 ELSE Head(s) + SumSeq(Tail(s))

RECURSIVE Flatten(_)
Flatten(ss) == IF ss = <<>> THEN <<>> ELSE Head(ss) \o Flatten(Tail(ss))

Min(a, b) == IF a <= b THEN a ELSE b

\* ElementNode.getAllTextNodes: the TextNodes below the element, in document order
RECURSIVE getAllTextNodes(_)
getAllTextNodes(node) ==
    Flatten([i \in 1..Len(node.children) |->
        LET child == node.children[i]
        IN  IF isTextNode(child) THEN <<child>>
            ELSE IF isElementNode(child) THEN getAllTextNodes(child)
            ELSE <<>>])

\* node.getPreviousSiblings() of the node at key
getPreviousSiblings(doc, key) ==
    SubSeq(NodeAt(doc, Front(key)).children, 1, Last(key) - 1)

(***************************************************************************)
(* $pointToPath                                                            *)
(***************************************************************************)
NoPoint == [key |-> <<>>, offset |-> 0, type |-> "none"]

ErrorPoint == [key |-> <<>>, offset |-> 0, type |-> "error"]

NoPath == [rootIndex |-> 0 - 1, textOffset |-> 0 - 1]

setOffsetFromTextNode(node, textOffset) == textOffset + getTextContentSize(node)

setOffsetFromElementNode(top, textOffset) ==
    textOffset + SumSeq([i \in 1..Len(getAllTextNodes(top)) |->
                            getTextContentSize(getAllTextNodes(top)[i])])

\* mutant: the text inside preceding elements is not counted
setOffsetFromNode_TextOnly(node, textOffset) ==
    IF isTextNode(node) THEN setOffsetFromTextNode(node, textOffset)
    ELSE textOffset

setOffsetFromNode(node, textOffset) ==
    IF isTextNode(node) THEN setOffsetFromTextNode(node, textOffset)
    ELSE IF isElementNode(node) THEN setOffsetFromElementNode(node, textOffset)
    ELSE textOffset

RECURSIVE forEachSetOffsetFromNode(_, _)
forEachSetOffsetFromNode(nodes, textOffset) ==
    IF nodes = <<>> THEN textOffset
    ELSE forEachSetOffsetFromNode(Tail(nodes), setOffsetFromNode(Head(nodes), textOffset))

\* returns the closure variables (top, textOffset) when it is done; topDefined
\* says whether top was assigned (it is null until then)
RECURSIVE setOffsetFromPreviousSiblings(_, _, _)
setOffsetFromPreviousSiblings(doc, key, textOffset) ==
    IF key = <<>> \/ isRootNode(NodeAt(doc, Front(key)))
    THEN [topDefined |-> TRUE, top |-> key, textOffset |-> textOffset]
    ELSE setOffsetFromPreviousSiblings(doc, Front(key),
            forEachSetOffsetFromNode(getPreviousSiblings(doc, key), textOffset))

\* node.getIndexWithinParent(), 0-based; -1 for a node without parent
getIndexWithinParent(key) == IF key = <<>> THEN 0 - 1 ELSE Last(key) - 1

\* if (!top) throw new Error('Expected top to be defined')
pointToPathThrows(doc, pt) ==
    ~setOffsetFromPreviousSiblings(doc, pt.key, pt.offset).topDefined

pointToPath(doc, pt) ==
    LET r == setOffsetFromPreviousSiblings(doc, pt.key, pt.offset)
    IN  [rootIndex |-> getIndexWithinParent(r.top), textOffset |-> r.textOffset]

(***************************************************************************)
(* The two pairs of adjust functions: handlLoadSelection passes the        *)
(* no-ops ("exact"), handleHighlight the ones that follow getTextContent   *)
(* ("rendered").                                                           *)
(***************************************************************************)
Policies == {"exact", "rendered"}

DOUBLE_LINE_BREAK == <<"\n", "\n">>

\* handlLoadSelection: no-op
LoadSelection_adjustTextOffsetForLineBreakNode(textOffset) == textOffset

\* handlLoadSelection: no-op
LoadSelection_adjustTextOffsetForElementNode(node, index, totalChildren, textOffset) ==
    textOffset

\* mutant: the line break is counted twice
Highlight_adjustTextOffsetForLineBreakNode_Twice(textOffset) == textOffset - 2

\* mutant: the line break is not counted
Highlight_adjustTextOffsetForLineBreakNode_NotCounted(textOffset) == textOffset

\* handleHighlight: a line break counts for 1 character
Highlight_adjustTextOffsetForLineBreakNode(textOffset) == textOffset - 1

\* mutant: the separator is counted after inline elements too
Highlight_adjustTextOffsetForElementNode_InlineToo(node, index, totalChildren, textOffset) ==
    IF isElementNode(node) /\ index # totalChildren - 1
    THEN textOffset - Len(DOUBLE_LINE_BREAK)
    ELSE textOffset

\* handleHighlight: DOUBLE_LINE_BREAK after a non-inline element that is not the last child
Highlight_adjustTextOffsetForElementNode(node, index, totalChildren, textOffset) ==
    IF isElementNode(node) /\ index # totalChildren - 1 /\ ~node.inline
    THEN textOffset - Len(DOUBLE_LINE_BREAK)
    ELSE textOffset

\* the function parameters of findTargetNode, chosen by the caller
adjustTextOffsetForLineBreakNode(pol, textOffset) ==
    IF pol = "exact" THEN LoadSelection_adjustTextOffsetForLineBreakNode(textOffset)
    ELSE Highlight_adjustTextOffsetForLineBreakNode(textOffset)

\* index is 0-based, as in the for loop that calls it
adjustTextOffsetForElementNode(pol, node, index, totalChildren, textOffset) ==
    IF pol = "exact"
    THEN LoadSelection_adjustTextOffsetForElementNode(node, index, totalChildren, textOffset)
    ELSE Highlight_adjustTextOffsetForElementNode(node, index, totalChildren, textOffset)

(***************************************************************************)
(* findTargetNode and its helpers return the pair [TextNode | null,         *)
(* textOffset]: found says whether a TextNode is returned, key names it.   *)
(***************************************************************************)
\* mutant: the node is taken one character too late
findTargetInTextNode_OffByOne(textNode, key, textOffset) ==
    LET size == getTextContentSize(textNode)
    IN  IF size + 1 >= textOffset
        THEN [found |-> TRUE, key |-> key, textOffset |-> textOffset]
        ELSE [found |-> FALSE, key |-> <<>>, textOffset |-> textOffset - size]

\* mutant: the operands of the subtraction are swapped
findTargetInTextNode_Swapped(textNode, key, textOffset) ==
    LET size == getTextContentSize(textNode)
    IN  IF size >= textOffset
        THEN [found |-> TRUE, key |-> key, textOffset |-> textOffset]
        ELSE [found |-> FALSE, key |-> <<>>, textOffset |-> size - textOffset]

\* mutant: the end of the node is not a match (> for >=)
findTargetInTextNode_Strict(textNode, key, textOffset) ==
    LET size == getTextContentSize(textNode)
    IN  IF size > textOffset
        THEN [found |-> TRUE, key |-> key, textOffset |-> textOffset]
        ELSE [found |-> FALSE, key |-> <<>>, textOffset |-> textOffset - size]

\* mutant: textOffset -= size is missing
findTargetInTextNode_NoSubtract(textNode, key, textOffset) ==
    IF getTextContentSize(textNode) >= textOffset
    THEN [found |-> TRUE, key |-> key, textOffset |-> textOffset]
    ELSE [found |-> FALSE, key |-> key, textOffset |-> textOffset]

findTargetInTextNode(textNode, key, textOffset) ==
    LET size == getTextContentSize(textNode)
    IN  IF size >= textOffset
        THEN [found |-> TRUE, key |-> key, textOffset |-> textOffset]
        ELSE [found |-> FALSE, key |-> <<>>, textOffset |-> textOffset - size]

RECURSIVE findTargetNode(_, _, _, _)
RECURSIVE findTargetInElementNode(_, _, _, _)
RECURSIVE findTargetInChildren(_, _, _, _, _)

findTargetNode(node, key, textOffset, pol) ==
    IF isTextNode(node) THEN findTargetInTextNode(node, key, textOffset)
    ELSE IF isElementNode(node) THEN findTargetInElementNode(node, key, textOffset, pol)
    ELSE IF isLineBreakNode(node)
         THEN [found |-> FALSE, key |-> <<>>,
               textOffset |-> adjustTextOffsetForLineBreakNode(pol, textOffset)]
         ELSE [found |-> FALSE, key |-> <<>>, textOffset |-> textOffset]

\* the body of the for loop, from the child at 1-based position i on
findTargetInChildren(elementNode, key, i, textOffset, pol) ==
    IF i > Len(elementNode.children)
    THEN [found |-> FALSE, key |-> <<>>, textOffset |-> textOffset]
    ELSE LET child == elementNode.children[i]
             r == findTargetNode(child, Append(key, i), textOffset, pol)
         IN  IF r.found THEN r
             ELSE findTargetInChildren(elementNode, key, i + 1,
                      adjustTextOffsetForElementNode(pol, child, i - 1,
                          Len(elementNode.children), r.textOffset),
                      pol)

findTargetInElementNode(elementNode, key, textOffset, pol) ==
    findTargetInChildren(elementNode, key, 1, textOffset, pol)

(***************************************************************************)
(* $setPointFromPointPath: the Point it sets, or ErrorPoint when           *)
(* assertNotNil or assert throws (point.set is then never called).         *)
(***************************************************************************)
\* root.getChildAtIndex(index): null when there is no such child
hasChildAtIndex(doc, index) == index >= 0 /\ index < Len(doc.children)

getChildAtIndex(doc, index) == doc.children[index + 1]

\* mutant: assert($isElementNode(top)) is missing
setPointFromPointPath_NoAssert(doc, pth, pol) ==
    IF ~hasChildAtIndex(doc, pth.rootIndex) THEN ErrorPoint
    ELSE LET top == getChildAtIndex(doc, pth.rootIndex)
             topKey == <<pth.rootIndex + 1>>
             r == findTargetNode(top, topKey, pth.textOffset, pol)
         IN  IF ~r.found
             THEN [key |-> topKey, offset |-> 0, type |-> "element"]
             ELSE [key |-> r.key,
                   offset |-> Min(r.textOffset, getTextContentSize(NodeAt(doc, r.key))),
                   type |-> "text"]

setPointFromPointPath(doc, pth, pol) ==
    IF ~hasChildAtIndex(doc, pth.rootIndex) THEN ErrorPoint
    ELSE LET top == getChildAtIndex(doc, pth.rootIndex)
             topKey == <<pth.rootIndex + 1>>
         IN  IF ~isElementNode(top) THEN ErrorPoint
             ELSE LET r == findTargetNode(top, topKey, pth.textOffset, pol)
                  IN  IF ~r.found
                      THEN [key |-> topKey, offset |-> 0, type |-> "element"]
                      ELSE [key |-> r.key,
                            offset |-> Min(r.textOffset,
                                           getTextContentSize(NodeAt(doc, r.key))),
                            type |-> "text"]

(***************************************************************************)
(* node.getTextContent() of the document model, as handleHighlight reads   *)
(* it: a LineBreakNode is one line feed, an element joins its children     *)
(* and puts DOUBLE_LINE_BREAK after a non-inline element child that is not *)
(* the last one.                                                           *)
(***************************************************************************)
RECURSIVE getTextContent(_)
getTextContent(node) ==
    IF isTextNode(node) THEN node.text
    ELSE IF isLineBreakNode(node) THEN <<"\n">>
    ELSE IF isElementNode(node)
         THEN Flatten([i \in 1..Len(node.children) |->
                  getTextContent(node.children[i]) \o
                  (IF isElementNode(node.children[i]) /\ i # Len(node.children)
                      /\ ~node.children[i].inline
                   THEN DOUBLE_LINE_BREAK ELSE <<>>)])
         ELSE <<>>

(***************************************************************************)
(* The documents the checks run on: every document of at most MaxNodes     *)
(* nodes whose TextNodes hold 1 to MaxText characters, and the documents   *)
(* the specification's examples name.                                      *)
(***************************************************************************)
TextOfSize(n) == SubSeq(Alphabet, 1, n)

LeafNodes == {TextNode(TextOfSize(n)) : n \in 1..MaxText} \cup {LineBreakNode}

RECURSIVE TreesOfSize(_)
RECURSIVE ForestsOfSize(_)

TreesOfSize(n) ==
    (IF n = 1 THEN LeafNodes ELSE {})
    \cup {ElementNode(inl, f) : inl \in BOOLEAN, f \in ForestsOfSize(n - 1)}

ForestsOfSize(n) ==
    IF n = 0 THEN {<<>>}
    ELSE UNION {{<<t>> \o f : t \in TreesOfSize(k), f \in ForestsOfSize(n - k)} : k \in 1..n}

BlocksOfSize(n) == {ElementNode(FALSE, f) : f \in ForestsOfSize(n - 1)}

RECURSIVE BlockListsOfSize(_)
BlockListsOfSize(n) ==
    IF n = 0 THEN {<<>>}
    ELSE UNION {{<<b>> \o r : b \in BlocksOfSize(k), r \in BlockListsOfSize(n - k)} : k \in 1..n}

GeneratedDocuments == UNION {{RootNode(bl) : bl \in BlockListsOfSize(n)} : n \in 0..MaxNodes}

Paragraph(ch) == ElementNode(FALSE, ch)

\* "a", LineBreak, "b"
LineBreakExample == RootNode(<<Paragraph(<<TextNode(<<"a">>), LineBreakNode, TextNode(<<"b">>)>>)>>)

\* two non-inline elements "ab" and "cd" in one block
BoundaryExample ==
    RootNode(<<Paragraph(<<Paragraph(<<TextNode(<<"a", "b">>)>>),
                           Paragraph(<<TextNode(<<"c", "d">>)>>)>>)>>)

\* text before a nested inline element, in the second block; a decorator block last
NestedExample ==
    RootNode(<<Paragraph(<<TextNode(<<"x">>)>>),
               Paragraph(<<TextNode(<<"a", "b">>),
                           ElementNode(TRUE, <<TextNode(<<"c">>), TextNode(<<"d", "e">>)>>),
                           LineBreakNode,
                           TextNode(<<"f">>)>>),
               DecoratorNode>>)

\* an empty TextNode between two others
EmptyTextExample ==
    RootNode(<<Paragraph(<<TextNode(<<"a">>), TextNode(<<>>), TextNode(<<"b", "c">>)>>)>>)

ExampleDocuments == {LineBreakExample, BoundaryExample, NestedExample, EmptyTextExample}

Documents == GeneratedDocuments \cup ExampleDocuments

\* the keys of all nodes below node, each prefixed by key
RECURSIVE KeysBelow(_, _)
KeysBelow(node, key) ==
    UNION {{Append(key, i)} \cup KeysBelow(node.children[i], Append(key, i))
           : i \in 1..Len(node.children)}

\* the Points a selection can hold: a text Point in a TextNode, 0..size, and an
\* element Point in an ElementNode, 0..childCount
PointsOf(doc) ==
    UNION {LET n == NodeAt(doc, k)
           IN  IF isTextNode(n)
               THEN {[key |-> k, offset |-> o, type |-> "text"] : o \in 0..getTextContentSize(n)}
               ELSE IF isElementNode(n)
               THEN {[key |-> k, offset |-> o, type |-> "element"] : o \in 0..Len(n.children)}
               ELSE {}
           : k \in KeysBelow(doc, <<>>)}

\* the Points on the topmost node of a tree: the root, or the top of a detached subtree
TopPointsOf(tree) ==
    IF isTextNode(tree)
    THEN {[key |-> <<>>, offset |-> o, type |-> "text"] : o \in 0..getTextContentSize(tree)}
    ELSE IF isElementNode(tree)
    THEN {[key |-> <<>>, offset |-> o, type |-> "element"] : o \in 0..Len(tree.children)}
    ELSE {}

\* subtrees that were removed from the document: their topmost node has no parent
DetachedTrees ==
    {TextNode(<<"a", "b">>),
     Paragraph(<<TextNode(<<"a">>), ElementNode(TRUE, <<TextNode(<<"b", "c">>)>>)>>)}

(***************************************************************************)
(* The state of the plugin: the live selection and localStorage.           *)
(***************************************************************************)
\* $getSelection(): null, a selection that is not a RangeSelection, or a
\* RangeSelection with its two Points
NullSelection == [kind |-> "null", anchor |-> NoPoint, focus |-> NoPoint]

NodeSelection == [kind |-> "node", anchor |-> NoPoint, focus |-> NoPoint]

RangeSelection(anchor, focus) == [kind |-> "range", anchor |-> anchor, focus |-> focus]

\* localStorage.getItem gives null for a key that was never set, else the string
Absent == [present |-> FALSE, value |-> <<>>]

Stored(str) == [present |-> TRUE, value |-> str]

EmptyStore == [anchor |-> Absent, focus |-> Absent]

Digits == <<"0", "1", "2", "3", "4", "5", "6", "7", "8", "9">>

\* JSON.stringify of a number: its decimal digits, "-" first when negative
RECURSIVE naturalToString(_)
naturalToString(n) ==
    IF n < 10 THEN <<Digits[n + 1]>>
    ELSE naturalToString(n \div 10) \o <<Digits[(n % 10) + 1]>>

numberToString(n) ==
    IF n < 0 THEN <<"-">> \o naturalToString(0 - n) ELSE naturalToString(n)

\* JSON.stringify of a PointPath: {"rootIndex":<n>,"textOffset":<n>}
stringify(pth) ==
    <<"{", "\"", "r", "o", "o", "t", "I", "n", "d", "e", "x", "\"", ":">>
    \o numberToString(pth.rootIndex)
    \o <<",", "\"", "t", "e", "x", "t", "O", "f", "f", "s", "e", "t", "\"", ":">>
    \o numberToString(pth.textOffset)
    \o <<"}">>

RECURSIVE stringToNatural(_)
stringToNatural(str) ==
    IF str = <<>> THEN 0
    ELSE 10 * stringToNatural(Front(str))
         + (CHOOSE d \in 0..9 : Digits[d + 1] = Last(str))

stringToNumber(str) ==
    IF str # <<>> /\ str[1] = "-" THEN 0 - stringToNatural(Tail(str))
    ELSE stringToNatural(str)

\* JSON.parse of such a string: the numbers after the two colons
parse(str) ==
    LET colons == {i \in 1..Len(str) : str[i] = ":"}
        first == CHOOSE i \in colons : \A j \in colons : i <= j
        second == CHOOSE i \in colons : \A j \in colons : j <= i
        comma == CHOOSE i \in 1..Len(str) : str[i] = ","
    IN  [rootIndex |-> stringToNumber(SubSeq(str, first + 1, comma - 1)),
         textOffset |-> stringToNumber(SubSeq(str, second + 1, Len(str) - 1))]

\* mutant: both records are written under 'anchor'
saveSelection_OneKey(st, anchor, focus) ==
    [st EXCEPT !.anchor = Stored(stringify(focus))]

saveSelection(st, anchor, focus) ==
    [st EXCEPT !.anchor = Stored(stringify(anchor)),
               !.focus = Stored(stringify(focus))]

NoSelectionPaths == [found |-> FALSE, anchor |-> NoPath, focus |-> NoPath]

\* !anchor is true for null and for the empty string
getSelection(st) ==
    IF \/ ~st.anchor.present \/ st.anchor.value = <<>>
       \/ ~st.focus.present \/ st.focus.value = <<>>
    THEN NoSelectionPaths
    ELSE [found |-> TRUE, anchor |-> parse(st.anchor.value), focus |-> parse(st.focus.value)]

\* one localStorage call, and whether a transaction was open when it was made
StoreCall(op, key) == [op |-> op, key |-> key, inUpdate |-> inUpdate]

NotSaved == [saved |-> FALSE, anchor |-> NoPath, focus |-> NoPath]

\* no handler is running and none has run
PluginIdle ==
    /\ selection = NullSelection
    /\ store = EmptyStore
    /\ handler = "none"
    /\ pc = "idle"
    /\ inUpdate = FALSE
    /\ storeLog = <<>>
    /\ decoded = <<>>
    /\ selectionSet = FALSE
    /\ lastSaved = NotSaved

(***************************************************************************)
(* SpecCodec: $pointToPath and $setPointFromPointPath applied to the       *)
(* Points and PointPaths of one document.                                  *)
(***************************************************************************)
NoMatch == [found |-> FALSE, rootIndex |-> 0, startOffset |-> 0, endOffset |-> 0]

InitCodec ==
    /\ root \in Documents
    /\ point = NoPoint
    /\ pointTree = root
    /\ threw = FALSE
    /\ path = NoPath
    /\ pathFrom = "none"
    /\ policy = "none"
    /\ result = NoPoint
    /\ rootTexts = <<>>
    /\ sentence = <<>>
    /\ sentenceMatch = NoMatch
    /\ PluginIdle

\* $pointToPath(point) of a Point of the document, of its root, or of a detached subtree
Encode ==
    /\ pathFrom = "none"
    /\ \E tree \in {root} \cup DetachedTrees :
        \E pt \in PointsOf(tree) \cup TopPointsOf(tree) :
            /\ point' = pt
            /\ pointTree' = tree
            /\ IF pointToPathThrows(tree, pt)
               THEN threw' = TRUE /\ path' = NoPath
               ELSE threw' = FALSE /\ path' = pointToPath(tree, pt)
            /\ pathFrom' = "encode"
            /\ policy' = "none"
            /\ result' = NoPoint
            /\ UNCHANGED <<root, matchVars, pluginVars>>

\* a PointPath that did not come from this document (a stored one, or a match)
GivePath ==
    /\ pathFrom = "none"
    /\ \E ri \in (0 - 1)..Len(root.children) :
        \E off \in 0..(IF ri >= 0 /\ ri < Len(root.children)
                       THEN Len(getTextContent(root.children[ri + 1])) + MaxOverrun
                       ELSE 1) :
            /\ path' = [rootIndex |-> ri, textOffset |-> off]
            /\ pathFrom' = "input"
            /\ point' = NoPoint
            /\ policy' = "none"
            /\ result' = NoPoint
            /\ UNCHANGED <<root, pointTree, threw, matchVars, pluginVars>>

\* $setPointFromPointPath(point, path, ...) with one of the two pairs of adjust
\* functions, on a Point fresh from $createRangeSelection; when it throws,
\* point.set was not called and the Point is as it was
Decode ==
    /\ pathFrom # "none"
    /\ ~threw
    /\ policy = "none"
    /\ \E pol \in Policies :
        LET r == setPointFromPointPath(root, path, pol)
        IN  /\ policy' = pol
            /\ threw' = (r = ErrorPoint)
            /\ result' = IF r = ErrorPoint THEN result ELSE r
    /\ UNCHANGED <<root, point, pointTree, path, pathFrom, matchVars, pluginVars>>

NextCodec == Encode \/ GivePath \/ Decode

SpecCodec == InitCodec /\ [][NextCodec]_vars

(***************************************************************************)
(* findFirstSentenceMatch.  A string is the sequence of its characters;    *)
(* offsets are 0-based as in the program.                                  *)
(***************************************************************************)
SENTENCE == <<"R", "o", "s", "e", "s", " ", "a", "r", "e", " ", "r", "e", "d", ".">>

\* String.prototype.includes
includes(str, search) ==
    \E k \in 0..(Len(str) - Len(search)) : SubSeq(str, k + 1, k + Len(search)) = search

\* String.prototype.indexOf: the first index, or -1
indexOf(str, search) ==
    IF includes(str, search)
    THEN CHOOSE k \in 0..(Len(str) - Len(search)) :
            /\ SubSeq(str, k + 1, k + Len(search)) = search
            /\ \A j \in 0..(k - 1) : SubSeq(str, j + 1, j + Len(search)) # search
    ELSE 0 - 1

\* the for loop, from 0-based index i on
RECURSIVE findFirstSentenceMatchFrom(_, _, _)
findFirstSentenceMatchFrom(texts, target, i) ==
    IF i >= Len(texts) THEN NoMatch
    ELSE IF ~includes(texts[i + 1], target)
         THEN findFirstSentenceMatchFrom(texts, target, i + 1)
         ELSE LET startOffset == indexOf(texts[i + 1], SENTENCE)
                  endOffset == startOffset + Len(SENTENCE)
              IN  [found |-> TRUE, rootIndex |-> i,
                   startOffset |-> startOffset, endOffset |-> endOffset]

findFirstSentenceMatch(texts, target) == findFirstSentenceMatchFrom(texts, target, 0)

(***************************************************************************)
(* SpecMatch: findFirstSentenceMatch applied to lists of block strings.    *)
(***************************************************************************)
MaxStringLen == 2   \* characters of a generated block string
MaxTexts == 2       \* block strings in rootTexts

RECURSIVE StringsOver(_, _)
StringsOver(chars, n) ==
    IF n = 0 THEN {<<>>}
    ELSE StringsOver(chars, n - 1)
         \cup {Append(w, c) : w \in StringsOver(chars, n - 1), c \in chars}

HelloExample == <<"H", "e", "l", "l", "o", ".", " ", "R", "o", "s", "e", "s", " ", "a", "r", "e", " ", "r", "e", "d", ".", " ", "B", "y", "e", ".">>

NothingExample == <<"N", "o", "t", "h", "i", "n", "g", " ", "h", "e", "r", "e", ".">>

BlockStrings ==
    StringsOver({"a", "b"}, MaxStringLen)
    \cup {SENTENCE, HelloExample, NothingExample, <<"a">> \o SENTENCE \o SENTENCE}

Targets == {SENTENCE, <<"a">>, <<"b">>, <<"a", "b">>, <<"B", "y", "e">>}

InitMatch ==
    /\ rootTexts \in UNION {[1..n -> BlockStrings] : n \in 0..MaxTexts}
    /\ sentence \in Targets
    /\ sentenceMatch = NoMatch
    /\ root = RootNode(<<>>)
    /\ point = NoPoint
    /\ pointTree = RootNode(<<>>)
    /\ threw = FALSE
    /\ path = NoPath
    /\ pathFrom = "none"
    /\ policy = "none"
    /\ result = NoPoint
    /\ PluginIdle

Match ==
    /\ pathFrom = "none"
    /\ pathFrom' = "match"
    /\ sentenceMatch' = findFirstSentenceMatch(rootTexts, sentence)
    /\ UNCHANGED <<root, point, pointTree, threw, path, policy, result, rootTexts, sentence, pluginVars>>

NextMatch == Match

SpecMatch == InitMatch /\ [][NextMatch]_vars

(***************************************************************************)
(* Spec: the click handlers of SentencePlugin.  A handler runs to its end  *)
(* before the next click; editor.update(callback) opens a transaction,     *)
(* runs the callback in it and closes it when the callback is done.        *)
(***************************************************************************)
SplitPoints == {1, 6, 13}

\* documents the editor can hold
EditorDocuments ==
    {RootNode(<<>>),
     LineBreakExample,
     RootNode(<<Paragraph(<<TextNode(<<"a", "b">>)>>), DecoratorNode>>),
     RootNode(<<Paragraph(<<TextNode(<<"x">>)>>), Paragraph(<<TextNode(SENTENCE)>>)>>)}

\* the Points the user puts the selection on: the start and the end of a node
SelectionPoints(doc) ==
    {pt \in PointsOf(doc) \cup TopPointsOf(doc) :
        \/ pt.offset = 0
        \/ pt.type = "text" /\ pt.offset = getTextContentSize(NodeAt(doc, pt.key))
        \/ pt.type = "element" /\ pt.offset = Len(NodeAt(doc, pt.key).children)}

SelectionsOf(doc) ==
    {NullSelection, NodeSelection}
    \cup {RangeSelection(a, f) : a \in SelectionPoints(doc), f \in SelectionPoints(doc)}

\* records a session before this one left in localStorage
InitialStores ==
    [anchor : {Absent, Stored(stringify([rootIndex |-> 0, textOffset |-> 1]))},
     focus : {Absent, Stored(stringify([rootIndex |-> 0, textOffset |-> 2]))}]

CodecIdle ==
    /\ point = NoPoint
    /\ pointTree = root
    /\ threw = FALSE
    /\ path = NoPath
    /\ pathFrom = "none"
    /\ policy = "none"
    /\ result = NoPoint
    /\ rootTexts = <<>>
    /\ sentence = <<>>
    /\ sentenceMatch = NoMatch

Init ==
    /\ root \in EditorDocuments
    /\ CodecIdle
    /\ selection \in SelectionsOf(root)
    /\ store \in InitialStores
    /\ handler = "none"
    /\ pc = "idle"
    /\ inUpdate = FALSE
    /\ storeLog = <<>>
    /\ decoded = <<>>
    /\ selectionSet = FALSE
    /\ lastSaved = NotSaved

\* between two clicks the document is edited or replaced; the nodes the selection
\* was on are gone
UserEdits ==
    /\ pc = "idle"
    /\ root' \in EditorDocuments \ {root}
    /\ pointTree' = root'
    /\ selection' = NullSelection
    /\ UNCHANGED <<threw, point, path, pathFrom, policy, result, matchVars,
                   store, handler, pc, inUpdate, storeLog, decoded, selectionSet, lastSaved>>

\* between two clicks the user moves the selection
UserSelects ==
    /\ pc = "idle"
    /\ selection' \in SelectionsOf(root) \ {selection}
    /\ UNCHANGED <<root, threw, codecVars, matchVars,
                   store, handler, pc, inUpdate, storeLog, decoded, selectionSet, lastSaved>>

\* editor.update(callback) called by handler h: the transaction is open and the
\* callback is about to run
editorUpdate(h) ==
    /\ handler' = h
    /\ pc' = "callback"
    /\ inUpdate' = TRUE
    /\ UNCHANGED <<root, threw, codecVars, matchVars, selection, store,
                   storeLog, decoded, selectionSet, lastSaved>>

handlSaveSelection == pc = "idle" /\ editorUpdate("handlSaveSelection")

\* the callback of handlSaveSelection
SaveSelectionCallback ==
    /\ handler = "handlSaveSelection" /\ pc = "callback"
    /\ pc' = "return"
    /\ IF selection.kind # "range"
       THEN UNCHANGED <<threw, store, storeLog, lastSaved>>
       ELSE IF \/ pointToPathThrows(root, selection.anchor)
               \/ pointToPathThrows(root, selection.focus)
       THEN threw' = TRUE /\ UNCHANGED <<store, storeLog, lastSaved>>
       ELSE LET anchor == pointToPath(root, selection.anchor)
                focus == pointToPath(root, selection.focus)
            IN  /\ store' = saveSelection(store, anchor, focus)
                /\ storeLog' = <<StoreCall("setItem", "anchor"), StoreCall("setItem", "focus")>>
                /\ lastSaved' = [saved |-> TRUE, anchor |-> anchor, focus |-> focus]
                /\ UNCHANGED threw
    /\ UNCHANGED <<root, codecVars, matchVars, selection, handler, inUpdate, decoded, selectionSet>>

\* the body of a callback from $createRangeSelection() to $setSelection(selection):
\* the two calls of $setPointFromPointPath; the second is not made when the first throws
SetSelectionFromPaths(anchorPath, focusPath, pol) ==
    LET anchor == setPointFromPointPath(root, anchorPath, pol)
        focus == setPointFromPointPath(root, focusPath, pol)
    IN  IF anchor = ErrorPoint
        THEN /\ decoded' = <<anchorPath>>
             /\ threw' = TRUE
             /\ UNCHANGED <<selection, selectionSet>>
        ELSE IF focus = ErrorPoint
        THEN /\ decoded' = <<anchorPath, focusPath>>
             /\ threw' = TRUE
             /\ UNCHANGED <<selection, selectionSet>>
        ELSE /\ decoded' = <<anchorPath, focusPath>>
             /\ selection' = RangeSelection(anchor, focus)
             /\ selectionSet' = TRUE
             /\ UNCHANGED threw

handlLoadSelection == pc = "idle" /\ editorUpdate("handlLoadSelection")

\* the callback of handlLoadSelection
LoadSelectionCallback ==
    /\ handler = "handlLoadSelection" /\ pc = "callback"
    /\ pc' = "return"
    /\ storeLog' = <<StoreCall("getItem", "anchor"), StoreCall("getItem", "focus")>>
    /\ LET selectionPaths == getSelection(store)
       IN  IF ~selectionPaths.found
           THEN UNCHANGED <<threw, selection, decoded, selectionSet>>
           ELSE SetSelectionFromPaths(selectionPaths.anchor, selectionPaths.focus, "exact")
    /\ UNCHANGED <<root, codecVars, matchVars, store, handler, inUpdate, lastSaved>>

handleHighlight == pc = "idle" /\ editorUpdate("handleHighlight")

\* the callback of handleHighlight
HighlightCallback ==
    /\ handler = "handleHighlight" /\ pc = "callback"
    /\ pc' = "return"
    /\ rootTexts' = [i \in 1..Len(root.children) |-> getTextContent(root.children[i])]
    /\ sentence' = SENTENCE
    /\ sentenceMatch' = findFirstSentenceMatch(rootTexts', SENTENCE)
    /\ IF ~sentenceMatch'.found
       THEN UNCHANGED <<threw, selection, decoded, selectionSet>>
       ELSE SetSelectionFromPaths(
                [rootIndex |-> sentenceMatch'.rootIndex, textOffset |-> sentenceMatch'.startOffset],
                [rootIndex |-> sentenceMatch'.rootIndex, textOffset |-> sentenceMatch'.endOffset],
                "rendered")
    /\ UNCHANGED <<root, codecVars, store, handler, inUpdate, storeLog, lastSaved>>

\* the callback is done: editor.update closes the transaction and the handler
\* returns; nothing is kept of what it computed
Return ==
    /\ pc = "return"
    /\ pc' = "idle"
    /\ handler' = "none"
    /\ inUpdate' = FALSE
    /\ threw' = FALSE
    /\ storeLog' = <<>>
    /\ decoded' = <<>>
    /\ selectionSet' = FALSE
    /\ rootTexts' = <<>>
    /\ sentence' = <<>>
    /\ sentenceMatch' = NoMatch
    /\ UNCHANGED <<root, codecVars, selection, store, lastSaved>>

Next ==
    \/ UserEdits \/ UserSelects
    \/ handlSaveSelection \/ SaveSelectionCallback
    \/ handlLoadSelection \/ LoadSelectionCallback
    \/ handleHighlight \/ HighlightCallback
    \/ Return

Spec == Init /\ [][Next]_vars

(***************************************************************************)
(* SpecHighlight: handleHighlight on documents that hold the sentence in   *)
(* one TextNode or split over several, behind and before other nodes.      *)
(***************************************************************************)
SentenceHead(k) == SubSeq(SENTENCE, 1, k)

SentenceTail(k) == SubSeq(SENTENCE, k + 1, Len(SENTENCE))

\* sibling nodes whose rendered text has the sentence
SentencePieces ==
    {<<TextNode(SENTENCE)>>,
     <<TextNode(<<"a">> \o SENTENCE \o <<"b">>)>>,
     <<TextNode(SENTENCE \o SENTENCE)>>}
    \cup {<<TextNode(SentenceHead(k)), TextNode(SentenceTail(k))>> : k \in SplitPoints}
    \cup {<<TextNode(SentenceHead(k)), ElementNode(TRUE, <<TextNode(SentenceTail(k))>>)>>
             : k \in SplitPoints}
    \cup {<<TextNode(SentenceHead(k)), ElementNode(FALSE, <<TextNode(SentenceTail(k))>>)>>
             : k \in SplitPoints}
    \cup {<<TextNode(SentenceHead(6)), TextNode(<<>>), TextNode(SentenceTail(6))>>,
          <<TextNode(SentenceHead(6)), DecoratorNode, TextNode(SentenceTail(6))>>}

\* sibling nodes whose rendered text does not have it
BrokenPieces ==
    {<<TextNode(SentenceHead(13))>>,
     <<TextNode(SentenceHead(6)), LineBreakNode, TextNode(SentenceTail(6))>>,
     <<ElementNode(FALSE, <<TextNode(SentenceHead(6))>>), TextNode(SentenceTail(6))>>}

\* the nodes before the sentence in its block
Prefixes ==
    {<<>>,
     <<TextNode(<<"a", "b">>)>>,
     <<TextNode(<<>>)>>,
     <<LineBreakNode>>,
     <<TextNode(<<"a", "b">>), LineBreakNode>>,
     <<LineBreakNode, LineBreakNode>>,
     <<ElementNode(FALSE, <<TextNode(<<"a", "b">>)>>)>>,
     <<ElementNode(FALSE, <<>>)>>,
     <<ElementNode(TRUE, <<TextNode(<<"a", "b">>)>>)>>,
     <<ElementNode(FALSE, <<ElementNode(FALSE, <<TextNode(<<"a">>)>>), LineBreakNode>>)>>,
     <<DecoratorNode>>}

\* the nodes after it
Suffixes ==
    {<<>>,
     <<TextNode(<<"c">>)>>,
     <<LineBreakNode>>,
     <<ElementNode(FALSE, <<TextNode(<<"c">>)>>)>>}

\* the sentence among its siblings, or one level down in an element
Wrappings(pieces) ==
    {pieces, <<ElementNode(FALSE, pieces)>>, <<ElementNode(TRUE, pieces)>>}

SentenceBlocks ==
    {Paragraph(pre \o mid \o post) :
        pre \in Prefixes,
        mid \in UNION {Wrappings(pieces) : pieces \in SentencePieces \cup BrokenPieces},
        post \in Suffixes}

SentenceDocuments ==
    {RootNode(<<>>), RootNode(<<DecoratorNode>>)}
    \cup UNION {{RootNode(<<b>>),
                 RootNode(<<Paragraph(<<TextNode(<<"x">>)>>), b>>),
                 RootNode(<<DecoratorNode, b>>),
                 RootNode(<<b, Paragraph(<<TextNode(SENTENCE)>>)>>)} : b \in SentenceBlocks}

InitHighlight ==
    /\ root \in SentenceDocuments
    /\ CodecIdle
    /\ selection \in {NullSelection, NodeSelection}
    /\ store = EmptyStore
    /\ handler = "none"
    /\ pc = "idle"
    /\ inUpdate = FALSE
    /\ storeLog = <<>>
    /\ decoded = <<>>
    /\ selectionSet = FALSE
    /\ lastSaved = NotSaved

NextHighlight == handleHighlight \/ HighlightCallback \/ Return

SpecHighlight == InitHighlight /\ [][NextHighlight]_vars

(***************************************************************************)
(* Vocabulary of the properties: document order, and the text that lies    *)
(* before a node of a block, counted from the document itself.             *)
(***************************************************************************)
IsPrefix(a, b) == Len(a) <= Len(b) /\ SubSeq(b, 1, Len(a)) = a

\* a comes before b in document order (pre-order: an ancestor before its descendants)
KeyLess(a, b) ==
    \/ IsPrefix(a, b) /\ a # b
    \/ \E i \in 1..Min(Len(a), Len(b)) :
          /\ SubSeq(a, 1, i - 1) = SubSeq(b, 1, i - 1)
          /\ a[i] < b[i]

\* the keys of the nodes of the block that holds key, the block not included
BlockKeys(doc, key) == KeysBelow(NodeAt(doc, <<key[1]>>), <<key[1]>>)

TextKeys(doc, key) == {k \in BlockKeys(doc, key) : isTextNode(NodeAt(doc, k))}

LineBreakKeys(doc, key) == {k \in BlockKeys(doc, key) : isLineBreakNode(NodeAt(doc, k))}

\* the elements below the block after which getTextContent puts DOUBLE_LINE_BREAK
BoundaryKeys(doc, key) ==
    {k \in BlockKeys(doc, key) :
        /\ NodeAt(doc, k).type = "element"
        /\ ~NodeAt(doc, k).inline
        /\ Last(k) # Len(NodeAt(doc, Front(k)).children)}

RECURSIVE SumSizes(_, _)
SumSizes(doc, keys) ==
    IF keys = {} THEN 0
    ELSE LET k == CHOOSE x \in keys : TRUE
         IN  Len(NodeAt(doc, k).text) + SumSizes(doc, keys \ {k})

\* characters of the TextNodes of the block that come before the node at key
ExactBefore(doc, key) == SumSizes(doc, {k \in TextKeys(doc, key) : KeyLess(k, key)})

\* the same, plus 1 per LineBreakNode and 2 per completed element boundary before it
RenderedBefore(doc, key) ==
    ExactBefore(doc, key)
    + Cardinality({k \in LineBreakKeys(doc, key) : KeyLess(k, key)})
    + 2 * Cardinality({k \in BoundaryKeys(doc, key) : KeyLess(k, key) /\ ~IsPrefix(k, key)})

\* total flattened size of the block under a policy
FlatSize(doc, blockKey, pol) ==
    SumSizes(doc, TextKeys(doc, blockKey))
    + (IF pol = "rendered"
       THEN Cardinality(LineBreakKeys(doc, blockKey))
            + 2 * Cardinality(BoundaryKeys(doc, blockKey))
       ELSE 0)

\* $setPointFromPointPath was called
DecodeRan == pathFrom # "none" /\ policy # "none"

\* ... and it returned
Decoded == DecodeRan /\ ~threw

\* the Point handed to $pointToPath is on a node below the root of the document
Attached == pointTree = root /\ point.key # <<>>

\* the path addresses a block that $setPointFromPointPath accepts
BlockAddressed ==
    /\ hasChildAtIndex(root, path.rootIndex)
    /\ root.children[path.rootIndex + 1].type = "element"

TopKey == <<path.rootIndex + 1>>

Fallback == [key |-> TopKey, offset |-> 0, type |-> "element"]

(***************************************************************************)
(* C1. Exact round trip: decoding $pointToPath(P) of a text Point P with   *)
(* the exact (no-op) adjust functions sets a text Point on the same        *)
(* TextNode with the same offset, also when the offset is 0 and a          *)
(* TextNode or LineBreakNode precedes the node in its block.               *)
(***************************************************************************)
C1_ExactRoundTrip ==
    (Decoded /\ pathFrom = "encode" /\ Attached /\ point.type = "text" /\ policy = "exact")
        => result = point

(***************************************************************************)
(* C2. findFirstSentenceMatch(rootTexts, sentence) returns, for every      *)
(* target passed as `sentence`, the smallest index whose string contains   *)
(* the target, with startOffset the first index of the target in that      *)
(* string and endOffset = startOffset + length(target); it returns null    *)
(* exactly when no string contains the target.                             *)
(***************************************************************************)
C2_FirstMatchOfTarget ==
    pathFrom = "match"
        => LET hits == {i \in 0..(Len(rootTexts) - 1) : includes(rootTexts[i + 1], sentence)}
           IN  /\ sentenceMatch.found <=> hits # {}
               /\ sentenceMatch.found =>
                    /\ sentenceMatch.rootIndex \in hits
                    /\ \A i \in hits : sentenceMatch.rootIndex <= i
                    /\ LET str == rootTexts[sentenceMatch.rootIndex + 1]
                           s == sentenceMatch.startOffset
                       IN  /\ s >= 0
                           /\ SubSeq(str, s + 1, s + Len(sentence)) = sentence
                           /\ \A j \in 0..(s - 1) :
                                 SubSeq(str, j + 1, j + Len(sentence)) # sentence
                           /\ sentenceMatch.endOffset = s + Len(sentence)

(***************************************************************************)
(* C3. The offset of a text Point set by $setPointFromPointPath lies in    *)
(* [0, size of the matched TextNode], under both policies and for every    *)
(* textOffset >= 0; it is never negative.                                  *)
(***************************************************************************)
C3_OffsetWithinNode ==
    (Decoded /\ result.type = "text")
        => /\ result.offset >= 0
           /\ result.offset <= getTextContentSize(NodeAt(root, result.key))

(***************************************************************************)
(* C4. Overrun fallback: decoding a textOffset strictly greater than the   *)
(* block's total flattened size under the policy in use matches no         *)
(* TextNode and sets the element Point (block, 0); no error is raised.     *)
(***************************************************************************)
C4_OverrunFallsBack ==
    (Decoded /\ BlockAddressed /\ path.textOffset > FlatSize(root, TopKey, policy))
        => result = Fallback

C4_Witness ==
    /\ Decoded /\ BlockAddressed
    /\ policy = "rendered"
    /\ LineBreakKeys(root, TopKey) # {}
    /\ BoundaryKeys(root, TopKey) # {}
    /\ path.textOffset = FlatSize(root, TopKey, policy) + 1
    /\ result = Fallback

(***************************************************************************)
(* C5. Monotonicity, as claimed: within one block and under one policy,    *)
(* the Point decoded from a smaller textOffset precedes or equals the      *)
(* Point decoded from a larger one, the fallback (block, 0) counting as    *)
(* the start of the block.                                                 *)
(***************************************************************************)
\* p precedes or equals q in document order; both lie in the same block
PointLE(p, q) ==
    IF p.type = "element" THEN TRUE
    ELSE IF q.type = "element"
         THEN p.offset <= 0 /\ \A i \in 2..Len(p.key) : p.key[i] = 1
         ELSE KeyLess(p.key, q.key) \/ (p.key = q.key /\ p.offset <= q.offset)

C5_MonotoneWithFallback ==
    (Decoded /\ BlockAddressed)
        => \A o1 \in 0..(path.textOffset - 1) :
              PointLE(setPointFromPointPath(root,
                          [rootIndex |-> path.rootIndex, textOffset |-> o1], policy),
                      result)

(***************************************************************************)
(* C5, amended. The same, for the textOffsets whose decoding matches a     *)
(* TextNode: when decoding O2 sets a text Point, decoding any O1 < O2 sets *)
(* a Point that precedes or equals it.                                     *)
(***************************************************************************)
C5_MonotoneOnMatches ==
    (Decoded /\ BlockAddressed /\ result.type = "text")
        => \A o1 \in 0..(path.textOffset - 1) :
              PointLE(setPointFromPointPath(root,
                          [rootIndex |-> path.rootIndex, textOffset |-> o1], policy),
                      result)

C5_Witness ==
    /\ Decoded /\ BlockAddressed
    /\ result.type = "text"
    /\ policy = "rendered"
    /\ \E o1 \in 0..(path.textOffset - 1) :
          LET p == setPointFromPointPath(root,
                       [rootIndex |-> path.rootIndex, textOffset |-> o1], policy)
          IN  p.type = "text" /\ KeyLess(p.key, result.key)

(***************************************************************************)
(* C6. Line-break example, as claimed: in a block "a", LineBreak, "b",     *)
(* decoding textOffset 2 with the exact policy overruns "ab" and sets the  *)
(* fallback element Point (block, 0).                                      *)
(***************************************************************************)
LineBreakBlockAddressed ==
    /\ BlockAddressed
    /\ root.children[path.rootIndex + 1].children
           = <<TextNode(<<"a">>), LineBreakNode, TextNode(<<"b">>)>>

C6_ExactTwoFallsBack ==
    (Decoded /\ LineBreakBlockAddressed /\ policy = "exact" /\ path.textOffset = 2)
        => result = Fallback

(***************************************************************************)
(* C6, amended. In that block, decoding textOffset 2 with the exact policy *)
(* sets the text Point ("b", 1), the end of the exact text "ab".           *)
(***************************************************************************)
C6_ExactTwoEndsInB ==
    (Decoded /\ LineBreakBlockAddressed /\ policy = "exact" /\ path.textOffset = 2)
        => result = [key |-> Append(TopKey, 3), offset |-> 1, type |-> "text"]

C6_Witness ==
    /\ Decoded /\ LineBreakBlockAddressed /\ policy = "exact" /\ path.textOffset = 2
    /\ result.type = "text"

(***************************************************************************)
(* C7. Rendered decoding lands in the right node: for a TextNode T of the  *)
(* block and a local offset o, decoding (rendered length of what precedes  *)
(* T) + o with the rendered policy sets (T, o) when 1 <= o <= size(T), and *)
(* also when o = 0 and T is the first TextNode of the block, or what was   *)
(* visited just before T is a LineBreakNode or the end of a non-inline,    *)
(* not-last element.  Instances: "ab", "cd" in two non-inline elements,    *)
(* textOffset 4 -> ("cd", 0); "a", LineBreak, "b", textOffset 2 -> ("b", 0)*)
(***************************************************************************)
\* the node whose visit ends just before the node at key is visited:
\* its previous sibling, or that of the nearest ancestor that has one
RECURSIVE VisitedBefore(_)
VisitedBefore(key) ==
    IF Len(key) <= 1 THEN <<>>
    ELSE IF Last(key) > 1 THEN Append(Front(key), Last(key) - 1)
    ELSE VisitedBefore(Front(key))

AfterSeparator(doc, key) ==
    LET v == VisitedBefore(key)
    IN  /\ v # <<>>
        /\ \/ isLineBreakNode(NodeAt(doc, v))
           \/ NodeAt(doc, v).type = "element" /\ ~NodeAt(doc, v).inline

FirstTextOfBlock(doc, key) == \A k \in TextKeys(doc, key) : ~KeyLess(k, key)

C7_RenderedLandsInNode ==
    (Decoded /\ BlockAddressed /\ policy = "rendered")
        => /\ \A t \in TextKeys(root, TopKey) :
                \* o: the local offset in t that path.textOffset stands for
                LET o == path.textOffset - RenderedBefore(root, t)
                IN  ( /\ o >= 0 /\ o <= getTextContentSize(NodeAt(root, t))
                      /\ \/ o >= 1
                         \/ FirstTextOfBlock(root, t)
                         \/ AfterSeparator(root, t) )
                    => result = [key |-> t, offset |-> o, type |-> "text"]
           /\ (root = BoundaryExample /\ path = [rootIndex |-> 0, textOffset |-> 4])
                => result = [key |-> <<1, 2, 1>>, offset |-> 0, type |-> "text"]
           /\ (root = LineBreakExample /\ path = [rootIndex |-> 0, textOffset |-> 2])
                => result = [key |-> <<1, 3>>, offset |-> 0, type |-> "text"]

C7_Witness ==
    /\ Decoded /\ policy = "rendered"
    /\ root = BoundaryExample
    /\ path = [rootIndex |-> 0, textOffset |-> 4]
    /\ AfterSeparator(root, <<1, 2, 1>>)
    /\ RenderedBefore(root, <<1, 2, 1>>) = 4
    /\ result = [key |-> <<1, 2, 1>>, offset |-> 0, type |-> "text"]

(***************************************************************************)
(* C8. Policy mismatch is detectable: when a text Point P has a            *)
(* LineBreakNode or a completed non-inline, not-last element boundary      *)
(* before it in its block, decoding $pointToPath(P) with the rendered      *)
(* policy sets a Point different from P.                                   *)
(***************************************************************************)
PrecededBySeparator(doc, key) ==
    \/ \E k \in LineBreakKeys(doc, key) : KeyLess(k, key)
    \/ \E k \in BoundaryKeys(doc, key) : KeyLess(k, key) /\ ~IsPrefix(k, key)

C8_MismatchDetected ==
    ( /\ Decoded /\ pathFrom = "encode" /\ Attached /\ point.type = "text"
      /\ policy = "rendered"
      /\ PrecededBySeparator(root, point.key) )
        => result # point

C8_Witness ==
    /\ Decoded /\ pathFrom = "encode" /\ Attached /\ point.type = "text"
    /\ policy = "rendered"
    /\ PrecededBySeparator(root, point.key)
    /\ result.type = "text"
    /\ result.key = point.key
    /\ result.offset # point.offset

(***************************************************************************)
(* C9. Encoder, text Points: rootIndex is the position among the root's    *)
(* children of the block that holds the TextNode, and textOffset is the    *)
(* Point's offset plus the sizes of all TextNodes of that block that       *)
(* precede the node in document order (line breaks and other blocks add    *)
(* nothing).                                                               *)
(***************************************************************************)
C9_EncodeTextPoint ==
    (pathFrom = "encode" /\ Attached /\ point.type = "text")
        => /\ path.rootIndex = point.key[1] - 1
           /\ path.textOffset = point.offset + ExactBefore(root, point.key)

C9_Witness ==
    /\ pathFrom = "encode" /\ Attached
    /\ root = NestedExample
    /\ point = [key |-> <<2, 2, 2>>, offset |-> 1, type |-> "text"]
    /\ path = [rootIndex |-> 1, textOffset |-> 4]

(***************************************************************************)
(* C10. Encoder, element Points: for a Point (E, offset) on an element     *)
(* the count starts from the sum of the text sizes of E's first `offset`   *)
(* children, not from the child index; the textOffset returned is that sum *)
(* plus the text that precedes E in its block, so for a block it is that   *)
(* sum.                                                                    *)
(***************************************************************************)
TextBelowFirstChildren(doc, key, n) ==
    SumSizes(doc, {k \in TextKeys(doc, key) :
                      \E i \in 1..n : IsPrefix(Append(key, i), k)})

C10_EncodeElementPoint ==
    (pathFrom = "encode" /\ Attached /\ point.type = "element")
        => path.textOffset = TextBelowFirstChildren(root, point.key, point.offset)
                             + ExactBefore(root, point.key)

(***************************************************************************)
(* C11. InvalidPoint: when the Point's node has no ancestor that is a      *)
(* child of the root (the topmost node of a detached subtree has no        *)
(* parent, or the node is the root itself), $pointToPath throws instead of *)
(* returning a path.                                                       *)
(***************************************************************************)
C11_InvalidPointThrows ==
    (pathFrom = "encode" /\ ~Attached) => (threw /\ path = NoPath)

(***************************************************************************)
(* C12. OutOfRange: when path.rootIndex addresses no child of the root, or *)
(* a child that is not an element, $setPointFromPointPath throws before    *)
(* point.set is called, so the Point is as it was given; for every         *)
(* textOffset and both policies.                                           *)
(***************************************************************************)
C12_OutOfRangeThrows ==
    (DecodeRan /\ ~BlockAddressed) => (threw /\ result = NoPoint)

C12_Witness ==
    /\ DecodeRan
    /\ hasChildAtIndex(root, path.rootIndex)
    /\ root.children[path.rootIndex + 1].type = "decorator"
    /\ path.textOffset > 0
    /\ policy = "rendered"
    /\ threw
    /\ result = NoPoint

(***************************************************************************)
(* C15. The exact position is stable under a round trip: for a text Point  *)
(* P of the attached tree, decoding $pointToPath(P) with the exact policy  *)
(* does not throw and does not take the (block, 0) fallback; it gives a    *)
(* text Point Q in the same block with 0 <= offset <= size, and            *)
(* $pointToPath(Q) = $pointToPath(P), also when Q is on another TextNode   *)
(* than P.                                                                 *)
(***************************************************************************)
C15_ExactPositionStable ==
    (DecodeRan /\ pathFrom = "encode" /\ Attached /\ point.type = "text" /\ policy = "exact")
        => /\ ~threw
           /\ result.type = "text"
           /\ result.key[1] = point.key[1]
           /\ result.offset >= 0
           /\ result.offset <= getTextContentSize(NodeAt(root, result.key))
           /\ pointToPath(root, result) = path

C15_Witness ==
    /\ DecodeRan /\ pathFrom = "encode" /\ Attached /\ point.type = "text"
    /\ policy = "exact"
    /\ result.type = "text"
    /\ result.key # point.key
    /\ result.offset > 0
    /\ pointToPath(root, result) = path

(***************************************************************************)
(* C13. Persistence stays outside transactions: in every run of            *)
(* handlSaveSelection and handlLoadSelection, no getItem or setItem of the *)
(* 'anchor' and 'focus' records is made while the editor.update            *)
(* transaction is open.                                                    *)
(***************************************************************************)
C13_StoreOutsideTransaction ==
    \A i \in 1..Len(storeLog) :
        storeLog[i].key \in {"anchor", "focus"} => ~storeLog[i].inUpdate

(***************************************************************************)
(* C14. Last write wins: a run of handlSaveSelection without a range       *)
(* selection leaves both records as they are; a run of handlLoadSelection  *)
(* with the 'anchor' or the 'focus' record absent returns without calling  *)
(* $setSelection and the live selection stays; and after a save, the paths *)
(* handlLoadSelection hands to $setPointFromPointPath are the anchor path, *)
(* then the focus path, of the latest save (the focus path is not reached  *)
(* only when decoding the anchor path throws).                             *)
(***************************************************************************)
C14_LastWriteWins ==
    [][ /\ (handler = "handlSaveSelection" /\ pc = "callback" /\ selection.kind # "range")
            => store' = store
        /\ (handler = "handlLoadSelection" /\ pc = "callback"
                /\ (~store.anchor.present \/ ~store.focus.present))
            => (selection' = selection /\ ~selectionSet' /\ decoded' = <<>>)
        /\ (handler = "handlLoadSelection" /\ pc = "callback" /\ lastSaved.saved)
            => /\ decoded' # <<>>
               /\ IsPrefix(decoded', <<lastSaved.anchor, lastSaved.focus>>)
               /\ (~threw' => Len(decoded') = 2)
      ]_vars

C14_Witness ==
    /\ handler = "handlLoadSelection" /\ pc = "return"
    /\ lastSaved.saved
    /\ lastSaved.anchor # lastSaved.focus
    /\ lastSaved.anchor.rootIndex = 1
    /\ decoded = <<lastSaved.anchor, lastSaved.focus>>
    /\ selectionSet
    /\ selection.kind = "range"

(***************************************************************************)
(* C16. handleHighlight selects exactly the sentence: when the rendered    *)
(* text of some block (TextNode contents, 1 character per LineBreakNode, 2 *)
(* per non-inline element that is not the last child) contains SENTENCE,   *)
(* the handler sets a selection whose anchor and focus are text Points     *)
(* with offsets in [0, size] in the first such block, the anchor is not    *)
(* after the focus in document order, and the TextNode characters between  *)
(* them, in document order, are SENTENCE; when no block contains it,       *)
(* $setSelection is not called.                                            *)
(***************************************************************************)
\* the 1-based indexes of the blocks whose rendered text contains SENTENCE
BlocksWithSentence ==
    {i \in 1..Len(root.children) : includes(getTextContent(root.children[i]), SENTENCE)}

\* the characters of the TextNodes of a block, in document order
TextOfBlock(doc, i) ==
    LET nodes == getAllTextNodes(doc.children[i])
    IN  Flatten([n \in 1..Len(nodes) |-> nodes[n].text])

\* those of them that lie between two text Points of one block
TextBetween(doc, a, f) ==
    SubSeq(TextOfBlock(doc, a.key[1]),
           ExactBefore(doc, a.key) + a.offset + 1,
           ExactBefore(doc, f.key) + f.offset)

TextPointIn(doc, pt, i) ==
    /\ pt.type = "text"
    /\ pt.key[1] = i
    /\ pt.offset >= 0
    /\ pt.offset <= getTextContentSize(NodeAt(doc, pt.key))

C16_HighlightSelectsSentence ==
    (handler = "handleHighlight" /\ pc = "return")
        => IF BlocksWithSentence = {}
           THEN ~selectionSet
           ELSE LET first == CHOOSE i \in BlocksWithSentence :
                                \A j \in BlocksWithSentence : i <= j
                IN  /\ selectionSet
                    /\ ~threw
                    /\ selection.kind = "range"
                    /\ TextPointIn(root, selection.anchor, first)
                    /\ TextPointIn(root, selection.focus, first)
                    /\ PointLE(selection.anchor, selection.focus)
                    /\ TextBetween(root, selection.anchor, selection.focus) = SENTENCE

C16_Witness ==
    /\ handler = "handleHighlight" /\ pc = "return"
    /\ selectionSet
    /\ selection.kind = "range"
    /\ selection.anchor.key # selection.focus.key
    /\ selection.anchor.key[1] = 2
    /\ LineBreakKeys(root, selection.anchor.key) # {}
    /\ BoundaryKeys(root, selection.anchor.key) # {}
    /\ TextBetween(root, selection.anchor, selection.focus) = SENTENCE

====
